---------------------------- MODULE Spec2Model ----------------------------
(***************************************************************************)
(* Model of src/amazon_analyzer_mela.py: the AmazonOrdersAnalyzer class.   *)
(* The state is the analyzer object (data_directory, headers, orders) and  *)
(* the outcome of the last method call.  One action per method: _load_file *)
(* and the seven get_* aggregators.                                        *)
(*                                                                         *)
(* Money is counted in cents (integers), so "10.00" is 1000.               *)
(* Python dicts whose iteration order matters are sequences of entries in  *)
(* iteration order; the other dicts are functions from key to value.       *)
(***************************************************************************)
EXTENDS Integers, Sequences, FiniteSets, TLC

VARIABLES data_directory, headers, orders, set_iteration, result

vars == <<data_directory, headers, orders, set_iteration, result>>

(***************************************************************************)
(* Bounds of the model.                                                    *)
(***************************************************************************)
\* the largest number of records self.orders holds
MaxOrders == 3
\* the largest number of data rows in one file
MaxFileRows == 2

(***************************************************************************)
(* Python values.                                                          *)
(***************************************************************************)
\* Python's None: what csv.DictReader stores for a column the row is too
\* short to reach (restval).  No cell of a file holds this text.
None == "<None>"

\* truthiness of a str-or-None value: `if x`, `x or 0`
Truthy(x) == x # None /\ x # ""

\* order.get(key, default)
Get(order, key, default) == IF key \in DOMAIN order THEN order[key] ELSE default

Range(s) == {s[i] : i \in 1..Len(s)}

\* the outcome of a conversion or of a call: a value, or the exception raised
Ok(v) == [exc |-> "", val |-> v]
Raise(e) == [exc |-> e, val |-> 0]

\* float(s) for a str s: surrounding whitespace is ignored, a decimal point
\* is needed for a fraction (a decimal comma is a ValueError)
FloatLiterals ==
    ("10.00" :> 1000) @@ ("20.00" :> 2000) @@ ("5.00" :> 500) @@
    ("2.00" :> 200) @@ ("1.00" :> 100) @@ ("0.50" :> 50) @@
    (" 10.00 " :> 1000) @@ ("40" :> 4000) @@ ("0" :> 0)

float(s) == IF s \in DOMAIN FloatLiterals THEN Ok(FloatLiterals[s])
            ELSE Raise("ValueError")

\* int(s) for a str s: digits only, so "1.0" is a ValueError
IntLiterals == ("1" :> 1) @@ ("2" :> 2) @@ ("3" :> 3) @@ (" 2 " :> 2) @@ ("0" :> 0)

int(s) == IF s \in DOMAIN IntLiterals THEN Ok(IntLiterals[s])
          ELSE Raise("ValueError")

\* float(order.get(key, 0) or 0)
FloatField(order, key) ==
    IF key \in DOMAIN order /\ Truthy(order[key]) THEN float(order[key]) ELSE Ok(0)

\* int(order.get(key, 0) or 0)
IntField(order, key) ==
    IF key \in DOMAIN order /\ Truthy(order[key]) THEN int(order[key]) ELSE Ok(0)

\* s.strip() for a str s
strip(s) ==
    CASE s = " TRUE " -> "TRUE"
      [] s = " true" -> "true"
      [] s = "  " -> ""
      [] s = " P1 " -> "P1"
      [] OTHER -> s

\* s.lower() for a str s
lower(s) ==
    CASE s = "TRUE" -> "true"
      [] s = "True" -> "true"
      [] s = "FALSE" -> "false"
      [] s = "False" -> "false"
      [] OTHER -> s

\* purchase_date.replace('Z', '+00:00')
ReplaceZ(s) ==
    CASE s = "2024-03-05T10:00:00Z" -> "2024-03-05T10:00:00+00:00"
      [] s = "2024-04-01T08:30:00Z" -> "2024-04-01T08:30:00+00:00"
      [] s = "2023-12-31T23:59:59Z" -> "2023-12-31T23:59:59+00:00"
      [] s = "Zzz" -> "+00:00zz"
      [] OTHER -> s

\* datetime.fromisoformat(s).strftime('%Y-%m'): the month of the date as
\* written (no conversion to UTC), ValueError for a text that is no ISO date
IsoMonths ==
    ("2024-03-05T10:00:00+00:00" :> "2024-03") @@
    ("2024-03-20T09:00:00+01:00" :> "2024-03") @@
    ("2024-04-01T08:30:00+00:00" :> "2024-04") @@
    ("2023-12-31T23:59:59+00:00" :> "2023-12")

\* the whole conversion of lines 185-186, 249-250, 295-296, 327-328, 380-381
MonthKey(purchase_date) ==
    LET s == ReplaceZ(purchase_date)
    IN  IF s \in DOMAIN IsoMonths THEN Ok(IsoMonths[s]) ELSE Raise("ValueError")

\* the order of str comparison on the month keys (sorted() on the items)
MonthOrder == <<"2023-12", "2024-03", "2024-04">>

MonthRank(m) == CHOOSE i \in 1..Len(MonthOrder) : MonthOrder[i] = m

(***************************************************************************)
(* Python dicts.                                                           *)
(***************************************************************************)
EmptyDict == [k \in {} |-> 0]

\* d[k] = n, an assignment where the code adds
DictSet(d, k, n) ==
    IF k \in DOMAIN d THEN [d EXCEPT ![k] = n] ELSE d @@ (k :> n)

\* d[k] += n on a defaultdict(int)
DictAdd(d, k, n) ==
    IF k \in DOMAIN d THEN [d EXCEPT ![k] = @ + n] ELSE d @@ (k :> n)

RECURSIVE SumOver(_, _)
SumOver(d, keys) ==
    IF keys = {} THEN 0
    ELSE LET k == CHOOSE x \in keys : TRUE
         IN  d[k] + SumOver(d, keys \ {k})

\* sum(d.values())
SumValues(d) == SumOver(d, DOMAIN d)

(***************************************************************************)
(* The files of the data directory: tab-separated text, a header line      *)
(* naming the columns and one line per order item.                         *)
(***************************************************************************)
\* the columns of an Amazon order report that the analyzer reads
ReportHeader ==
    <<"amazon-order-id", "purchase-date", "order-status", "fulfillment-channel",
      "sales-channel", "product-name", "sku", "quantity", "item-price",
      "item-tax", "shipping-price", "ship-country", "promotion-ids",
      "is-business-order">>

\* a report that lacks the status, sku, country and channel columns
ShortHeader ==
    <<"amazon-order-id", "purchase-date", "quantity", "item-price",
      "promotion-ids">>

\* a line of a file with ReportHeader, as its cells
Line(id, date, status, channel, sku, qty, price, tax, ship, country, promo, biz) ==
    <<id, date, status, channel, "Amazon.it", "Mela " \o sku, sku, qty, price,
      tax, ship, country, promo, biz>>

Mar == "2024-03-05T10:00:00Z"
Mar2 == "2024-03-20T09:00:00+01:00"
Apr == "2024-04-01T08:30:00Z"
Dec == "2023-12-31T23:59:59Z"

\* lines with parsable and unparsable numbers and dates
NumericLines ==
    { Line("o1", Mar, "Shipped", "Amazon", "A1", "1", "10.00", "2.00", "1.00", "IT", "", "false"),
      Line("o2", Apr, "Shipped", "Merchant", "A2", "2", "abc", "2.00", "1.00", "IT", "", "false"),
      Line("o3", Mar, "Shipped", "Amazon", "A1", "1.0", "20.00", "x", "0.50", "DE", "", "true"),
      Line("o4", Apr, "Cancelled", "Merchant", "A2", "3", "5.00", "1.00", "1.00", "DE", "", "false"),
      Line("o5", "05/03/2024", "Shipped", "Merchant", "A3", "", " 10.00 ", "", "", "IT", "", "true"),
      Line("", Mar, "Shipped", "Amazon", "A1", "1", "10.00", "2.00", "1.00", "IT", "", "false") }

\* lines of every status, fulfilment channel and customer class; the last
\* two are cut short, so that their trailing columns are missing
ClassLines ==
    { Line("o1", Mar, "Shipped", "Amazon", "A1", "1", "10.00", "2.00", "1.00", "IT", "", "true"),
      Line("o2", Dec, "Pending", "Merchant", "A2", "1", "20.00", "2.00", "1.00", "FR", "", " TRUE "),
      Line("o3", Apr, "Shipping", "amazon", "A1", "2", "5.00", "", "", "IT", "", "False"),
      Line("o4", "", "Shipped", "Merchant", "A2", "1", "5.00", "", "", "", "", ""),
      SubSeq(Line("o5", Mar2, "Shipped", "Amazon", "A1", "1", "20.00", "2.00", "1.00", "IT", "", ""), 1, 11),
      SubSeq(Line("o6", Mar, "", "", "", "", "", "", "", "", "", ""), 1, 2) }

\* lines with and without promotions, on real and on placeholder SKUs
PromoLines ==
    { Line("o1", Mar, "Shipped", "Amazon", "A1", "1", "10.00", "2.00", "1.00", "IT", "P1", "false"),
      Line("o2", Apr, "Shipped", "Amazon", "A2", "1", "20.00", "2.00", "1.00", "IT", " P1 ", "false"),
      Line("o3", "Zzz", "Cancelled", "Amazon", "Unknown", "1", "5.00", "", "", "IT", "P2", "false"),
      Line("o4", Mar, "Shipped", "Merchant", "", "1", "5.00", "", "", "DE", "P1", "false"),
      Line("o5", Mar, "Shipped", "Merchant", "A1", "1", "5.00", "", "", "DE", "  ", "false"),
      Line("o6", Dec, "Shipped", "Merchant", "A2", "2", "10.00", "", "", "DE", "", "false") }

\* lines of three products whose revenues tie
ProductLines ==
    { Line("o1", Mar, "Shipped", "Amazon", "A1", "1", "10.00", "", "", "IT", "", "false"),
      Line("o2", Mar, "Shipped", "Amazon", "A2", "1", "10.00", "", "", "IT", "", "false"),
      Line("o3", Apr, "Shipped", "Amazon", "A3", "2", "20.00", "", "", "IT", "", "false"),
      Line("o4", Apr, "Cancelled", "Amazon", "A3", "1", "5.00", "", "", "IT", "", "false"),
      Line("o5", Dec, "Shipped", "Amazon", "Unknown", "1", "40", "", "", "IT", "", "false") }

\* lines of a file with ShortHeader
ShortLines ==
    { <<"o1", Mar, "1", "10.00", "">>,
      <<"o2", Apr, "2", "20.00", "P1">>,
      <<"o3", "n/a", "x", "x", "P2">>,
      <<"o4">>,
      <<"">> }

\* the directories an analyzer may be constructed on
\* a header that has the status but not the country, and its lines
MarketHeader == <<"amazon-order-id", "purchase-date", "order-status", "item-price">>

MarketLines ==
    { <<"o1", Mar, "Shipped", "10.00">>,
      <<"o2", Dec, "Shipped", "20.00">>,
      <<"o3", Apr, "Shipped", "abc">>,
      <<"o4", Mar, "Cancelled", "5.00">> }

Directories == {"numeric", "classes", "promo", "products", "short", "market"}

\* the header line of the files of a directory
HeaderOf(dir) ==
    CASE dir = "short" -> ShortHeader
      [] dir = "market" -> MarketHeader
      [] OTHER -> ReportHeader

\* the lines the files of a directory are made of
LinesOf(dir) ==
    CASE dir = "numeric" -> NumericLines
      [] dir = "classes" -> ClassLines
      [] dir = "promo" -> PromoLines
      [] dir = "products" -> ProductLines
      [] dir = "short" -> ShortLines
      [] dir = "market" -> MarketLines

\* the files a directory may hold: the header and at most MaxFileRows lines
FilesOf(dir) ==
    UNION { [1..n -> LinesOf(dir)] : n \in 0..MaxFileRows }

(***************************************************************************)
(* csv.DictReader: the row of a line, a dict from the column names of the  *)
(* header to the cells, None for the columns the line does not reach.      *)
(***************************************************************************)
DictRow(fieldnames, cells) ==
    [k \in Range(fieldnames) |->
        LET i == CHOOSE j \in 1..Len(fieldnames) : fieldnames[j] = k
        IN  IF i <= Len(cells) THEN cells[i] ELSE None]

\* the rows of a file, one for every line, whatever its amazon-order-id
AllRows(fieldnames, lines) ==
    [i \in 1..Len(lines) |-> DictRow(fieldnames, lines[i])]

\* the rows of a file that _load_file appends (lines 73-75), in file order
RECURSIVE AcceptedRows(_, _)
AcceptedRows(fieldnames, lines) ==
    IF lines = <<>> THEN <<>>
    ELSE LET row == DictRow(fieldnames, Head(lines))
             rest == AcceptedRows(fieldnames, Tail(lines))
         IN  IF Truthy(Get(row, "amazon-order-id", None))
             THEN <<row>> \o rest ELSE rest

\* what reading a file of each directory may append to self.orders
Appended ==
    [dir \in Directories |->
        {AcceptedRows(HeaderOf(dir), lines) : lines \in FilesOf(dir)}]

(***************************************************************************)
(* get_summary (lines 77-123)                                              *)
(***************************************************************************)
\* the try block of lines 105-115: the three additions share one try
SummaryMoney(s, order) ==
    LET price == FloatField(order, "item-price")
        tax == FloatField(order, "item-tax")
        ship == FloatField(order, "shipping-price")
    IN  IF price.exc # "" THEN s
        ELSE LET s1 == [s EXCEPT !.total_revenue = @ + price.val]
             IN  IF tax.exc # "" THEN s1
                 ELSE LET s2 == [s1 EXCEPT !.total_tax = @ + tax.val]
                      IN  IF ship.exc # "" THEN s2
                          ELSE [s2 EXCEPT !.total_shipping = @ + ship.val]

\* a revenue rule that leaves out the cancelled orders only
NotCancelled(status) == status # "Cancelled"

\* line 104: the orders whose money is counted
CountsMoney(status) == status = "Shipped"

\* one iteration of the loop of lines 91-121
SummaryStep(s, order) ==
    LET status == Get(order, "order-status", "Unknown")
        marketplace == Get(order, "sales-channel", "Unknown")
        country == Get(order, "ship-country", "Unknown")
        fulfillment == Get(order, "fulfillment-channel", "Unknown")
        s1 == [s EXCEPT !.by_status = DictAdd(@, status, 1),
                        !.by_marketplace = DictAdd(@, marketplace, 1),
                        !.by_country = DictAdd(@, country, 1),
                        !.by_fulfillment = DictAdd(@, fulfillment, 1)]
        s2 == IF CountsMoney(status) THEN SummaryMoney(s1, order) ELSE s1
        quantity == IntField(order, "quantity")
    IN  IF quantity.exc # "" THEN s2
        ELSE [s2 EXCEPT !.total_items_sold = @ + quantity.val]

\* the loop of lines 91-121, from the accumulator a over the orders os
RECURSIVE SummaryLoop(_, _)
SummaryLoop(a, os) ==
    IF os = <<>> THEN a ELSE SummaryLoop(SummaryStep(a, Head(os)), Tail(os))

get_summary(os) ==
    SummaryLoop([total_orders |-> Len(os),
             by_status |-> EmptyDict,
             by_marketplace |-> EmptyDict,
             by_country |-> EmptyDict,
             by_fulfillment |-> EmptyDict,
             total_revenue |-> 0,
             total_tax |-> 0,
             total_shipping |-> 0,
             total_items_sold |-> 0],
            os)

(***************************************************************************)
(* Dicts that are iterated: a sequence of entries, each with its key, in   *)
(* insertion order.                                                        *)
(***************************************************************************)
HasKey(d, k) == \E i \in 1..Len(d) : d[i].key = k

Entry(d, k) == d[CHOOSE i \in 1..Len(d) : d[i].key = k]

\* d[k] on a defaultdict: a missing key is inserted with the default entry
Touch(d, k, default) == IF HasKey(d, k) THEN d ELSE Append(d, default)

\* the dict with the entry of key k replaced
Put(d, k, e) == [i \in 1..Len(d) |-> IF d[i].key = k THEN e ELSE d[i]]

\* the items of a dict keyed by month left in insertion order
SortByMonthSkipped(d) == d

\* sorted(d.items()) for a dict keyed by month: ascending by key
RECURSIVE SortByMonth(_)
SortByMonth(d) ==
    IF d = <<>> THEN <<>>
    ELSE LET least == CHOOSE i \in 1..Len(d) :
                        \A j \in 1..Len(d) : MonthRank(d[i].key) <= MonthRank(d[j].key)
         IN  <<d[least]>> \o
             SortByMonth(SubSeq(d, 1, least - 1) \o SubSeq(d, least + 1, Len(d)))

(***************************************************************************)
(* get_products_summary (lines 125-164)                                    *)
(***************************************************************************)
NewProduct(sku) ==
    [key |-> sku, name |-> "", sku |-> "", total_quantity |-> 0,
     total_revenue |-> 0, orders_count |-> 0]

\* one iteration of the loop with the quantity and the price converted in
\* one try block: a quantity that does not parse skips the revenue
ProductsStepOneTry(products, order) ==
    LET sku == Get(order, "sku", "Unknown")
        status == Get(order, "order-status", "")
    IN  IF ~Truthy(sku) \/ sku = "Unknown" THEN products
        ELSE LET ps == Touch(products, sku, NewProduct(sku))
                 p0 == Entry(ps, sku)
                 p1 == IF ~Truthy(p0.name)
                       THEN [p0 EXCEPT !.name = Get(order, "product-name", "N/A")]
                       ELSE p0
                 p2 == [p1 EXCEPT !.sku = sku, !.orders_count = @ + 1]
                 quantity == IntField(order, "quantity")
                 item_price == FloatField(order, "item-price")
                 p3 == IF quantity.exc # "" THEN p2
                       ELSE [p2 EXCEPT !.total_quantity = @ + quantity.val]
                 p4 == IF quantity.exc = "" /\ status = "Shipped" /\ item_price.exc = ""
                       THEN [p3 EXCEPT !.total_revenue = @ + item_price.val]
                       ELSE p3
             IN  Put(ps, sku, p4)

\* one iteration of the loop of lines 135-159
ProductsStep(products, order) ==
    LET sku == Get(order, "sku", "Unknown")
        status == Get(order, "order-status", "")
    IN  IF ~Truthy(sku) \/ sku = "Unknown" THEN products
        ELSE LET ps == Touch(products, sku, NewProduct(sku))
                 p0 == Entry(ps, sku)
                 p1 == IF ~Truthy(p0.name)
                       THEN [p0 EXCEPT !.name = Get(order, "product-name", "N/A")]
                       ELSE p0
                 p2 == [p1 EXCEPT !.sku = sku, !.orders_count = @ + 1]
                 quantity == IntField(order, "quantity")
                 p3 == IF quantity.exc # "" THEN p2
                       ELSE [p2 EXCEPT !.total_quantity = @ + quantity.val]
                 item_price == FloatField(order, "item-price")
                 p4 == IF status = "Shipped" /\ item_price.exc = ""
                       THEN [p3 EXCEPT !.total_revenue = @ + item_price.val]
                       ELSE p3
             IN  Put(ps, sku, p4)

\* a variant of list.sort that puts the later of two equal products first
RECURSIVE SortByRevenueUnstable(_)
SortByRevenueUnstable(ps) ==
    IF ps = <<>> THEN <<>>
    ELSE LET best == CHOOSE i \in 1..Len(ps) :
                       /\ \A j \in 1..Len(ps) : ps[i].total_revenue >= ps[j].total_revenue
                       /\ \A j \in (i + 1)..Len(ps) : ps[i].total_revenue > ps[j].total_revenue
         IN  <<ps[best]>> \o
             SortByRevenueUnstable(SubSeq(ps, 1, best - 1) \o SubSeq(ps, best + 1, Len(ps)))

\* products_list.sort(key=total_revenue, reverse=True) (line 162): a stable
\* sort, so the first of the products of the highest revenue comes first
RECURSIVE SortByRevenue(_)
SortByRevenue(ps) ==
    IF ps = <<>> THEN <<>>
    ELSE LET best == CHOOSE i \in 1..Len(ps) :
                       /\ \A j \in 1..Len(ps) : ps[i].total_revenue >= ps[j].total_revenue
                       /\ \A j \in 1..(i - 1) : ps[j].total_revenue < ps[i].total_revenue
         IN  <<ps[best]>> \o
             SortByRevenue(SubSeq(ps, 1, best - 1) \o SubSeq(ps, best + 1, Len(ps)))

\* the loop of lines 135-159, from the accumulator a over the orders os
RECURSIVE ProductsLoop(_, _)
ProductsLoop(a, os) ==
    IF os = <<>> THEN a ELSE ProductsLoop(ProductsStep(a, Head(os)), Tail(os))

\* the dict of products before it is listed and sorted (lines 127-159)
ProductsDict(os) == ProductsLoop(<<>>, os)

get_products_summary(os) == SortByRevenue(ProductsDict(os))

(***************************************************************************)
(* get_monthly_trends (lines 166-207)                                      *)
(***************************************************************************)
NewMonth(month_key) ==
    [key |-> month_key, orders |-> 0, revenue |-> 0, items |-> 0,
     shipped |-> 0, cancelled |-> 0, pending |-> 0]

\* lines 188-202, once the date has parsed: every statement up to the first
\* conversion that raises has taken effect
MonthlyCount(monthly, order, month_key) ==
    LET status == Get(order, "order-status", "")
        ms == Touch(monthly, month_key, NewMonth(month_key))
        m0 == Entry(ms, month_key)
        m1 == [m0 EXCEPT !.orders = @ + 1,
                         !.shipped = IF status = "Shipped" THEN @ + 1 ELSE @,
                         !.cancelled = IF status = "Cancelled" THEN @ + 1 ELSE @,
                         !.pending = IF status = "Pending" THEN @ + 1 ELSE @]
        quantity == IntField(order, "quantity")
        m2 == [m1 EXCEPT !.items = @ + quantity.val]
        item_price == FloatField(order, "item-price")
    IN  IF quantity.exc # "" THEN Put(ms, month_key, m1)
        ELSE IF status # "Shipped" \/ item_price.exc # "" THEN Put(ms, month_key, m2)
        ELSE Put(ms, month_key, [m2 EXCEPT !.revenue = @ + item_price.val])

\* one iteration of the loop of lines 177-205
MonthlyStep(monthly, order) ==
    LET purchase_date == Get(order, "purchase-date", "")
    IN  IF ~Truthy(purchase_date) THEN monthly
        ELSE LET month_key == MonthKey(purchase_date)
             IN  IF month_key.exc # "" THEN monthly
                 ELSE MonthlyCount(monthly, order, month_key.val)

\* the loop of lines 177-205, from the accumulator a over the orders os
RECURSIVE MonthlyLoop(_, _)
MonthlyLoop(a, os) ==
    IF os = <<>> THEN a ELSE MonthlyLoop(MonthlyStep(a, Head(os)), Tail(os))

get_monthly_trends(os) == SortByMonth(MonthlyLoop(<<>>, os))

(***************************************************************************)
(* get_fba_fbm_analysis (lines 209-265) and get_business_analysis (lines   *)
(* 342-396): the same loop body over two classes, here "first" (fba,       *)
(* business) and "second" (fbm, consumer).                                 *)
(***************************************************************************)
NewClass == [orders |-> 0, revenue |-> 0, items |-> 0, cancelled |-> 0]

NewClassMonth(month_key) == [key |-> month_key, orders |-> 0, revenue |-> 0]

NewClasses ==
    [exc |-> "", first |-> NewClass, second |-> NewClass,
     monthly_first |-> <<>>, monthly_second |-> <<>>]

\* monthly[month_key]['orders'] += 1; monthly[month_key]['revenue'] += item_price
ClassMonthAdd(monthly, month_key, item_price) ==
    LET ms == Touch(monthly, month_key, NewClassMonth(month_key))
        m == Entry(ms, month_key)
    IN  Put(ms, month_key, [m EXCEPT !.orders = @ + 1, !.revenue = @ + item_price])

\* the try block with the date parsed before the price is added to the class
ClassMoneyDateFirst(a, order, is_first) ==
    LET purchase_date == Get(order, "purchase-date", "")
        item_price == FloatField(order, "item-price")
        a1 == IF is_first THEN [a EXCEPT !.first.revenue = @ + item_price.val]
              ELSE [a EXCEPT !.second.revenue = @ + item_price.val]
        month_key == MonthKey(purchase_date)
    IN  IF item_price.exc # "" THEN a
        ELSE IF ~Truthy(purchase_date) THEN a1
        ELSE IF month_key.exc # "" THEN a
        ELSE IF is_first
             THEN [a1 EXCEPT !.monthly_first = ClassMonthAdd(@, month_key.val, item_price.val)]
             ELSE [a1 EXCEPT !.monthly_second = ClassMonthAdd(@, month_key.val, item_price.val)]

\* the try block of lines 243-259 and 374-390: the price is added to the
\* class before the date is parsed
ClassMoney(a, order, is_first) ==
    LET purchase_date == Get(order, "purchase-date", "")
        item_price == FloatField(order, "item-price")
        a1 == IF is_first THEN [a EXCEPT !.first.revenue = @ + item_price.val]
              ELSE [a EXCEPT !.second.revenue = @ + item_price.val]
        month_key == MonthKey(purchase_date)
    IN  IF item_price.exc # "" THEN a
        ELSE IF ~Truthy(purchase_date) \/ month_key.exc # "" THEN a1
        ELSE IF is_first
             THEN [a1 EXCEPT !.monthly_first = ClassMonthAdd(@, month_key.val, item_price.val)]
             ELSE [a1 EXCEPT !.monthly_second = ClassMonthAdd(@, month_key.val, item_price.val)]

\* lines 227-259 and 358-390, for an order of the class is_first names
ClassStep(a, order, is_first) ==
    LET status == Get(order, "order-status", "")
        quantity == IntField(order, "quantity")
        add == [orders |-> 1,
                cancelled |-> IF status = "Cancelled" THEN 1 ELSE 0,
                items |-> IF quantity.exc = "" THEN quantity.val ELSE 0]
        a1 == IF is_first
              THEN [a EXCEPT !.first.orders = @ + add.orders,
                             !.first.cancelled = @ + add.cancelled,
                             !.first.items = @ + add.items]
              ELSE [a EXCEPT !.second.orders = @ + add.orders,
                             !.second.cancelled = @ + add.cancelled,
                             !.second.items = @ + add.items]
    IN  IF status = "Shipped" THEN ClassMoney(a1, order, is_first) ELSE a1

\* a classification that takes a missing channel for Amazon's
IsFbaOrMissing(order) ==
    Get(order, "fulfillment-channel", "Unknown") \in {"Amazon", None, "Unknown"}

\* lines 219-225: is_fba
IsFba(order) == Get(order, "fulfillment-channel", "Unknown") = "Amazon"

\* one iteration of the loop of lines 218-259
FbaFbmStep(a, order) == ClassStep(a, order, IsFba(order))

\* the loop of lines 218-259, from the accumulator a over the orders os
RECURSIVE FbaFbmLoop(_, _)
FbaFbmLoop(a, os) ==
    IF os = <<>> THEN a ELSE FbaFbmLoop(FbaFbmStep(a, Head(os)), Tail(os))

get_fba_fbm_analysis(os) ==
    LET a == FbaFbmLoop(NewClasses, os)
    IN  [fba |-> a.first, fbm |-> a.second,
         monthly_fba |-> SortByMonth(a.monthly_first),
         monthly_fbm |-> SortByMonth(a.monthly_second)]

\* line 352: order.get('is-business-order', '').strip().lower() == 'true';
\* None has no strip, so a row that does not reach the column raises
IsBusiness(order) ==
    LET raw == Get(order, "is-business-order", "")
    IN  IF raw = None THEN Raise("AttributeError")
        ELSE Ok(lower(strip(raw)) = "true")

\* one iteration of the loop of lines 351-390; nothing catches the
\* AttributeError of line 352, which ends the call
BusinessStep(a, order) ==
    LET is_business == IsBusiness(order)
    IN  IF a.exc # "" THEN a
        ELSE IF is_business.exc # "" THEN [a EXCEPT !.exc = is_business.exc]
        ELSE ClassStep(a, order, is_business.val)

\* the loop of lines 351-390, from the accumulator a over the orders os
RECURSIVE BusinessLoop(_, _)
BusinessLoop(a, os) ==
    IF os = <<>> THEN a ELSE BusinessLoop(BusinessStep(a, Head(os)), Tail(os))

\* the outcome of get_business_analysis: the dict returned or the exception
get_business_analysis(os) ==
    LET a == BusinessLoop(NewClasses, os)
    IN  IF a.exc # "" THEN Raise(a.exc)
        ELSE Ok([business |-> a.first, consumer |-> a.second,
                 monthly_business |-> SortByMonth(a.monthly_first),
                 monthly_consumer |-> SortByMonth(a.monthly_second)])

(***************************************************************************)
(* get_promotions_analysis (lines 267-312)                                 *)
(***************************************************************************)
NewPromotions ==
    [exc |-> "", total_with_promotions |-> 0, by_promotion_type |-> <<>>,
     skus_on_promotion |-> EmptyDict, monthly_promotions |-> <<>>]

\* lines 293-299: the month of a promoted order, when its date parses
PromotionMonth(monthly, purchase_date) ==
    LET month_key == MonthKey(purchase_date)
        ms == Touch(monthly, month_key.val, [key |-> month_key.val, count |-> 0])
        m == Entry(ms, month_key.val)
    IN  IF ~Truthy(purchase_date) \/ month_key.exc # "" THEN monthly
        ELSE Put(ms, month_key.val, [m EXCEPT !.count = @ + 1])

\* lines 283-299: an order with a promotion; its sku is used as it is
Promoted(a, promo_id, sku, purchase_date) ==
    LET ps == Touch(a.by_promotion_type, promo_id,
                    [key |-> promo_id, count |-> 0, skus |-> {}])
        p == Entry(ps, promo_id)
    IN  [a EXCEPT !.total_with_promotions = @ + 1,
                  !.by_promotion_type =
                      Put(ps, promo_id,
                          [p EXCEPT !.count = @ + 1, !.skus = @ \cup {sku}]),
                  !.skus_on_promotion = DictAdd(@, sku, 1),
                  !.monthly_promotions = PromotionMonth(@, purchase_date)]

\* one iteration of the loop that tests promotion-ids as it is, untrimmed
PromotionsStepUntrimmed(a, order) ==
    LET raw == Get(order, "promotion-ids", "")
        sku == Get(order, "sku", "Unknown")
        purchase_date == Get(order, "purchase-date", "")
    IN  IF a.exc # "" THEN a
        ELSE IF raw = None THEN [a EXCEPT !.exc = "AttributeError"]
        ELSE IF raw = "" THEN a
        ELSE Promoted(a, strip(raw), sku, purchase_date)

\* one iteration of the loop of lines 276-299; line 277 strips the value of
\* promotion-ids, and None has no strip: nothing catches the AttributeError
PromotionsStep(a, order) ==
    LET raw == Get(order, "promotion-ids", "")
        sku == Get(order, "sku", "Unknown")
        purchase_date == Get(order, "purchase-date", "")
    IN  IF a.exc # "" THEN a
        ELSE IF raw = None THEN [a EXCEPT !.exc = "AttributeError"]
        ELSE IF strip(raw) = "" THEN a
        ELSE Promoted(a, strip(raw), sku, purchase_date)

\* list(s) for a set s: its members in the order the hashes give them
ListOfSet(s, hash_order) == SelectSeq(hash_order, LAMBDA x : x \in s)

\* the loop of lines 276-299, from the accumulator a over the orders os
RECURSIVE PromotionsLoop(_, _)
PromotionsLoop(a, os) ==
    IF os = <<>> THEN a ELSE PromotionsLoop(PromotionsStep(a, Head(os)), Tail(os))

\* the orders in which the sets of SKUs built from these orders may iterate
HashOrders(os) ==
    LET ps == PromotionsLoop(NewPromotions, os).by_promotion_type
        skus == UNION {ps[i].skus : i \in 1..Len(ps)}
    IN  {h \in [1..Cardinality(skus) -> skus] : Range(h) = skus}

\* unique_skus taken from the count of the orders of the promotion
WithOrderCounts(by_promotion_type, hash_order) ==
    [i \in 1..Len(by_promotion_type) |->
        [key |-> by_promotion_type[i].key,
         count |-> by_promotion_type[i].count,
         unique_skus |-> by_promotion_type[i].count,
         skus |-> ListOfSet(by_promotion_type[i].skus, hash_order)]]

\* lines 302-305: unique_skus, and the set of SKUs made a list
WithUniqueSkus(by_promotion_type, hash_order) ==
    [i \in 1..Len(by_promotion_type) |->
        [key |-> by_promotion_type[i].key,
         count |-> by_promotion_type[i].count,
         unique_skus |-> Cardinality(by_promotion_type[i].skus),
         skus |-> ListOfSet(by_promotion_type[i].skus, hash_order)]]

\* the outcome of get_promotions_analysis: the dict returned or the exception
get_promotions_analysis(os, hash_order) ==
    LET a == PromotionsLoop(NewPromotions, os)
    IN  IF a.exc # "" THEN Raise(a.exc)
        ELSE Ok([total_with_promotions |-> a.total_with_promotions,
                 by_promotion_type |-> WithUniqueSkus(a.by_promotion_type, hash_order),
                 skus_on_promotion |-> a.skus_on_promotion,
                 monthly_promotions |-> SortByMonth(a.monthly_promotions)])

(***************************************************************************)
(* get_market_monthly_analysis (lines 314-340)                             *)
(***************************************************************************)
\* analysis[country][month_key] += item_price on the nested defaultdict
MarketAdd(analysis, country, month_key, item_price) ==
    LET cs == Touch(analysis, country, [key |-> country, months |-> <<>>])
        c == Entry(cs, country)
        ms == Touch(c.months, month_key, [key |-> month_key, revenue |-> 0])
        m == Entry(ms, month_key)
    IN  Put(cs, country,
            [c EXCEPT !.months = Put(ms, month_key, [m EXCEPT !.revenue = @ + item_price])])

\* one iteration of the loop of lines 318-333
MarketStep(analysis, order) ==
    LET country == Get(order, "ship-country", "Unknown")
        purchase_date == Get(order, "purchase-date", "")
        month_key == MonthKey(purchase_date)
        item_price == FloatField(order, "item-price")
    IN  IF Get(order, "order-status", None) # "Shipped" THEN analysis
        ELSE IF ~Truthy(purchase_date) THEN analysis
        ELSE IF month_key.exc # "" \/ item_price.exc # "" THEN analysis
        ELSE MarketAdd(analysis, country, month_key.val, item_price.val)

\* lines 336-338: the months of every country sorted
SortMonthsOf(analysis) ==
    [i \in 1..Len(analysis) |->
        [analysis[i] EXCEPT !.months = SortByMonth(@)]]

\* the loop of lines 318-333, from the accumulator a over the orders os
RECURSIVE MarketLoop(_, _)
MarketLoop(a, os) ==
    IF os = <<>> THEN a ELSE MarketLoop(MarketStep(a, Head(os)), Tail(os))

get_market_monthly_analysis(os) == SortMonthsOf(MarketLoop(<<>>, os))

(***************************************************************************)
(* create_powerpoint (lines 412-452) and the slide builders it calls        *)
(* (lines 476-1318).  The calls into python-pptx are taken to return; what  *)
(* can end a builder is an aggregator it calls or an expression of its own. *)
(***************************************************************************)
\* lines 15-26: the class body builds RGBColor values at line 34, so an
\* analyzer exists only where the import of python-pptx has succeeded
PPTX_AVAILABLE == TRUE

\* the calls of lines 434-444, in their order
SlideBuilders ==
    <<"_create_title_slide", "_create_summary_slide", "_create_revenue_slide",
      "_create_performance_slide", "_create_fba_fbm_slide",
      "_create_business_slide", "_create_promotions_slide",
      "_create_geography_slide", "_create_market_trends_slide",
      "_create_products_slide", "_create_insights_slide">>

\* n / d: a zero divisor raises; the quotient is only shown on the slide, and
\* is kept here as a whole number
Div(n, d) == IF d = 0 THEN Raise("ZeroDivisionError") ELSE Ok(n \div d)

\* d[k] read from a defaultdict(int): 0 for a key that is not there
Counted(d, k) == IF k \in DOMAIN d THEN d[k] ELSE 0

\* line 526: success_rate, computed only where total_orders > 0
SummaryRates(summary) ==
    LET success_rate == IF summary.total_orders > 0
                        THEN Div(Counted(summary.by_status, "Shipped") * 100,
                                 summary.total_orders)
                        ELSE Ok(0)
    IN  success_rate.exc

\* _create_summary_slide (lines 510-582), on the get_summary() of line 523
CreateSummarySlide(os) == SummaryRates(get_summary(os))

\* the cancel rates computed whatever the orders of the class
CancelRatesUnguarded(analysis) ==
    LET cancel_rate_fba == Div(analysis.fba.cancelled * 100, analysis.fba.orders)
        cancel_rate_fbm == Div(analysis.fbm.cancelled * 100, analysis.fbm.orders)
    IN  IF cancel_rate_fba.exc # "" THEN cancel_rate_fba.exc ELSE cancel_rate_fbm.exc

\* lines 811 and 848: the cancel rate of each class, computed only where the
\* class has orders
CancelRates(analysis) ==
    LET cancel_rate_fba == IF analysis.fba.orders > 0
                           THEN Div(analysis.fba.cancelled * 100, analysis.fba.orders)
                           ELSE Ok(0)
        cancel_rate_fbm == IF analysis.fbm.orders > 0
                           THEN Div(analysis.fbm.cancelled * 100, analysis.fbm.orders)
                           ELSE Ok(0)
    IN  IF cancel_rate_fba.exc # "" THEN cancel_rate_fba.exc ELSE cancel_rate_fbm.exc

\* _create_fba_fbm_slide (lines 770-892), on the get_fba_fbm_analysis() of
\* line 782
CreateFbaFbmSlide(os) == CancelRates(get_fba_fbm_analysis(os))

\* line 948: the slide calls get_business_analysis and catches nothing
CreateBusinessSlide(os) == get_business_analysis(os).exc

\* line 1097: the slide calls get_promotions_analysis and catches nothing; it
\* reads the counts of the result, not the lists of SKUs
CreatePromotionsSlide(os) == PromotionsLoop(NewPromotions, os).exc

\* lines 1227-1252: max() of line 1232 raises ValueError on the items of an
\* empty get_monthly_trends(); line 1233 divides by total_orders with no
\* test of it; line 1252 divides by the Shipped count only where it is
\* positive; the maxima of lines 1246 and 1249 are guarded
Insights(summary, monthly) ==
    LET shipped == Counted(summary.by_status, "Shipped")
        success_rate == Div(shipped * 100, summary.total_orders)
        avg_order_value == IF shipped > 0 THEN Div(summary.total_revenue, shipped)
                           ELSE Ok(0)
    IN  IF monthly = <<>> THEN "ValueError"
        ELSE IF success_rate.exc # "" THEN success_rate.exc
        ELSE avg_order_value.exc

\* _create_insights_slide (lines 1215-1318), on the get_summary() of line
\* 1227 and the get_monthly_trends() of line 1229
CreateInsightsSlide(os) == Insights(get_summary(os), get_monthly_trends(os))

\* the exception that ends the slide builder, "" when it returns
SlideBuilder(name, os) ==
    CASE name = "_create_summary_slide" -> CreateSummarySlide(os)
      [] name = "_create_fba_fbm_slide" -> CreateFbaFbmSlide(os)
      [] name = "_create_business_slide" -> CreateBusinessSlide(os)
      [] name = "_create_promotions_slide" -> CreatePromotionsSlide(os)
      [] name = "_create_insights_slide" -> CreateInsightsSlide(os)
      [] OTHER -> ""

\* lines 434-444: the builders that have returned when the sequence ends,
\* at its end or at the first builder that raises
RECURSIVE BuildSlides(_, _, _)
BuildSlides(built, todo, os) ==
    IF todo = <<>> \/ SlideBuilder(Head(todo), os) # "" THEN built
    ELSE BuildSlides(Append(built, Head(todo)), Tail(todo), os)

\* lines 434-451 once the builders have run: prs.save is reached only if
\* every builder has returned, else the exception of the builder that
\* raised leaves the method
Presented(built, os) ==
    IF Len(built) = Len(SlideBuilders)
    THEN [exc |-> "",
          val |-> [presentation |-> TRUE, built |-> built, saved |-> TRUE]]
    ELSE [exc |-> SlideBuilder(SlideBuilders[Len(built) + 1], os),
          val |-> [presentation |-> TRUE, built |-> built, saved |-> FALSE]]

\* create_powerpoint without the check of lines 418-420
CreatePowerpointUnchecked(os) ==
    Presented(BuildSlides(<<>>, SlideBuilders, os), os)

\* the outcome of create_powerpoint: whether Presentation() of line 429 was
\* reached, the builders that returned, whether prs.save of line 451 ran,
\* and the exception that left the method, if any
create_powerpoint(os) ==
    IF ~PPTX_AVAILABLE \/ Len(os) = 0
    THEN [exc |-> "",
          val |-> [presentation |-> FALSE, built |-> <<>>, saved |-> FALSE]]
    ELSE Presented(BuildSlides(<<>>, SlideBuilders, os), os)

(***************************************************************************)
(* main (lines 1320-1345): a new analyzer on the directory of the script,  *)
(* load_files, create_powerpoint and the closing messages.                 *)
(***************************************************************************)
\* load_files (lines 50-61): what self.orders may be after the loop of lines
\* 58-59 has read at most n files of the directory, one after the other
RECURSIVE LoadFiles(_, _)
LoadFiles(dir, n) ==
    IF n = 0 THEN {<<>>}
    ELSE LET read == LoadFiles(dir, n - 1)
         IN  read \cup {pair[1] \o pair[2] :
                           pair \in {p \in read \X Appended[dir] :
                                         Len(p[1]) + Len(p[2]) <= MaxOrders}}

\* for each directory, what load_files may leave in self.orders; a file
\* without a row that is appended leaves it as it is, so MaxOrders files
\* that append reach every collection of at most MaxOrders records
Loaded == [dir \in Directories |-> LoadFiles(dir, MaxOrders)]

\* the outcome of main on the records load_files has left: the exception of
\* create_powerpoint leaves main too (nothing catches it); otherwise lines
\* 1340-1344 print the messages of success, whatever create_powerpoint did
Closing(made) ==
    IF ~PPTX_AVAILABLE
    THEN [exc |-> "", val |-> [saved |-> FALSE, success |-> FALSE]]
    ELSE [exc |-> made.exc,
          val |-> [saved |-> made.val.saved, success |-> made.exc = ""]]

\* main on the records load_files has left
main(os) == Closing(create_powerpoint(os))

(***************************************************************************)
(* The analyzer.                                                           *)
(***************************************************************************)
\* what a call leaves for its caller: the exception that left it, or its value
Result(op, outcome) == [op |-> op, exc |-> outcome.exc, val |-> outcome.val]

\* __init__ (lines 45-48), on any of the directories
Init ==
    /\ data_directory \in Directories
    /\ headers = <<>>
    /\ orders = <<>>
    /\ set_iteration = <<>>
    /\ result = [op |-> "__init__", exc |-> "", val |-> None]

\* _load_file (lines 63-75) on one file of the data directory
LoadFile ==
    \E rows \in Appended[data_directory] :
        /\ Len(orders) + Len(rows) <= MaxOrders
        /\ headers' = IF headers = <<>> THEN HeaderOf(data_directory) ELSE headers
        /\ orders' = orders \o rows
        /\ set_iteration' = IF rows = <<>> THEN set_iteration ELSE <<>>
        /\ result' = [op |-> "_load_file", exc |-> "", val |-> None]
        /\ UNCHANGED data_directory

\* a call of get_summary whose loop takes the orders out of self.orders
GetSummaryDraining ==
    /\ result' = [op |-> "get_summary", exc |-> "", val |-> get_summary(orders)]
    /\ orders' = <<>>
    /\ UNCHANGED <<data_directory, headers, set_iteration>>

\* a call of get_summary
GetSummary ==
    /\ result' = [op |-> "get_summary", exc |-> "", val |-> get_summary(orders)]
    /\ UNCHANGED <<data_directory, headers, orders, set_iteration>>

\* a call of get_products_summary
GetProductsSummary ==
    /\ result' = [op |-> "get_products_summary", exc |-> "",
                  val |-> get_products_summary(orders)]
    /\ UNCHANGED <<data_directory, headers, orders, set_iteration>>

\* a call of get_monthly_trends that looks for the best month of the result
\* with max(), which raises on an empty mapping
GetMonthlyTrendsWithBest ==
    /\ result' = IF get_monthly_trends(orders) = <<>>
                 THEN [op |-> "get_monthly_trends", exc |-> "ValueError", val |-> None]
                 ELSE [op |-> "get_monthly_trends", exc |-> "",
                       val |-> get_monthly_trends(orders)]
    /\ UNCHANGED <<data_directory, headers, orders, set_iteration>>

\* a call of get_monthly_trends
GetMonthlyTrends ==
    /\ result' = [op |-> "get_monthly_trends", exc |-> "",
                  val |-> get_monthly_trends(orders)]
    /\ UNCHANGED <<data_directory, headers, orders, set_iteration>>

\* a call of get_fba_fbm_analysis
GetFbaFbmAnalysis ==
    /\ result' = [op |-> "get_fba_fbm_analysis", exc |-> "",
                  val |-> get_fba_fbm_analysis(orders)]
    /\ UNCHANGED <<data_directory, headers, orders, set_iteration>>

\* a call of get_market_monthly_analysis
GetMarketMonthlyAnalysis ==
    /\ result' = [op |-> "get_market_monthly_analysis", exc |-> "",
                  val |-> get_market_monthly_analysis(orders)]
    /\ UNCHANGED <<data_directory, headers, orders, set_iteration>>

\* a call of get_business_analysis: it returns or it raises
GetBusinessAnalysis ==
    /\ result' = Result("get_business_analysis", get_business_analysis(orders))
    /\ UNCHANGED <<data_directory, headers, orders, set_iteration>>

\* a call of get_promotions_analysis: it returns or it raises.  Within one
\* process a set built by the same insertions iterates in the same order, so
\* the order is drawn at the first call on a collection and kept until a load
\* changes the collection.
GetPromotionsAnalysis ==
    \E hash_order \in HashOrders(orders) :
        /\ set_iteration = <<>> \/ set_iteration = hash_order
        /\ set_iteration' = hash_order
        /\ result' = Result("get_promotions_analysis",
                            get_promotions_analysis(orders, hash_order))
        /\ UNCHANGED <<data_directory, headers, orders>>

\* a call of create_powerpoint: it refuses, it saves or it raises
CreatePowerpoint ==
    /\ result' = Result("create_powerpoint", create_powerpoint(orders))
    /\ UNCHANGED <<data_directory, headers, orders, set_iteration>>

\* a run of main, from its start: the analyzer is new (line 1333), load_files
\* reads the files of the directory (line 1336) and create_powerpoint is
\* called on what they hold (line 1339)
Main ==
    /\ result.op = "__init__"
    /\ \E os \in Loaded[data_directory] :
           \E fieldnames \in {<<>>, HeaderOf(data_directory)} :
               /\ os # <<>> => fieldnames # <<>>
               /\ headers' = fieldnames
               /\ orders' = os
               /\ result' = Result("main", main(os))
    /\ UNCHANGED <<data_directory, set_iteration>>

Next ==
    \/ LoadFile
    \/ GetSummary
    \/ GetProductsSummary
    \/ GetMonthlyTrends
    \/ GetFbaFbmAnalysis
    \/ GetMarketMonthlyAnalysis
    \/ GetBusinessAnalysis
    \/ GetPromotionsAnalysis
    \/ CreatePowerpoint
    \/ Main

Spec == Init /\ [][Next]_vars

(***************************************************************************)
(* The records of self.orders as the properties below read them, field by  *)
(* field.                                                                  *)
(***************************************************************************)
Records == 1..Len(orders)

\* a money or quantity field as a number, 0 when it is empty, missing or
\* does not parse
MoneyOrZero(order, key) ==
    IF FloatField(order, key).exc = "" THEN FloatField(order, key).val ELSE 0

\* the sum of f[i] over the records i of the set S
Total(f, S) == SumOver(f, S)

\* the records whose order-status is Shipped
ShippedRecords == {i \in Records : Get(orders[i], "order-status", None) = "Shipped"}

\* the records whose purchase-date parses into the month m
RecordsOfMonth(m) ==
    {i \in Records :
        LET d == Get(orders[i], "purchase-date", "")
        IN  Truthy(d) /\ MonthKey(d).exc = "" /\ MonthKey(d).val = m}

\* the records that carry a promotion
PromotedRecords ==
    {i \in Records :
        LET p == Get(orders[i], "promotion-ids", "")
        IN  p # None /\ strip(p) # ""}

\* the first record of a SKU
FirstRecordOf(sku) ==
    CHOOSE i \in Records :
        /\ Get(orders[i], "sku", "Unknown") = sku
        /\ \A j \in 1..(i - 1) : Get(orders[j], "sku", "Unknown") # sku

Returned(op) == result.op = op /\ result.exc = ""

(***************************************************************************)
(* C1: the counts of get_summary()['by_status'] sum to total_orders, the   *)
(* number of records: every record is counted under exactly one status     *)
(* key, the records whose status is missing or unrecognized included.      *)
(***************************************************************************)
C1_StatusCountsSumToTotal ==
    Returned("get_summary") =>
        /\ result.val.total_orders = Len(orders)
        /\ SumValues(result.val.by_status) = result.val.total_orders
        /\ \A k \in DOMAIN result.val.by_status :
              result.val.by_status[k] =
                  Cardinality({i \in Records : Get(orders[i], "order-status", "Unknown") = k})

\* a summary of three records, two of one status and one whose status is missing
C1_Witness ==
    /\ Returned("get_summary")
    /\ Len(orders) = 3
    /\ \E k \in DOMAIN result.val.by_status : result.val.by_status[k] = 2
    /\ \E i \in Records : Get(orders[i], "order-status", "Unknown") \in {None, "Unknown"}

(***************************************************************************)
(* C2: total_revenue of get_summary is the sum of item-price over exactly  *)
(* the Shipped records, an empty, missing or non-numeric price counting    *)
(* as 0; records of any other status add nothing.                          *)
(***************************************************************************)
C2_RevenueIsShippedPrices ==
    Returned("get_summary") =>
        result.val.total_revenue =
            Total([i \in Records |-> MoneyOrZero(orders[i], "item-price")], ShippedRecords)

\* a summary over a shipped record with a price, a shipped record whose price
\* does not parse and a record of another status that has a price
C2_Witness ==
    /\ Returned("get_summary")
    /\ result.val.total_revenue > 0
    /\ \E i \in ShippedRecords :
          /\ Truthy(Get(orders[i], "item-price", ""))
          /\ FloatField(orders[i], "item-price").exc # ""
    /\ \E i \in Records \ ShippedRecords : MoneyOrZero(orders[i], "item-price") > 0

(***************************************************************************)
(* C3: get_fba_fbm_analysis puts every record in exactly one class, fba    *)
(* when fulfillment-channel is exactly 'Amazon' and fbm otherwise (a       *)
(* missing value included), so fba.orders + fbm.orders is total_orders of  *)
(* get_summary.                                                            *)
(***************************************************************************)
C3_FbaFbmPartitionOrders ==
    Returned("get_fba_fbm_analysis") =>
        /\ result.val.fba.orders =
              Cardinality({i \in Records :
                              Get(orders[i], "fulfillment-channel", "Unknown") = "Amazon"})
        /\ result.val.fba.orders + result.val.fbm.orders = get_summary(orders).total_orders

\* an analysis with orders in both classes, one of them without a channel
C3_Witness ==
    /\ Returned("get_fba_fbm_analysis")
    /\ result.val.fba.orders >= 1
    /\ result.val.fbm.orders >= 2
    /\ \E i \in Records : Get(orders[i], "fulfillment-channel", "Unknown") = None

(***************************************************************************)
(* C4: for every record collection, fba.revenue + fbm.revenue of           *)
(* get_fba_fbm_analysis is total_revenue of get_summary, and               *)
(* business.revenue + consumer.revenue of get_business_analysis is the     *)
(* same total.                                                             *)
(***************************************************************************)
C4_RevenuePartitions ==
    /\ Returned("get_fba_fbm_analysis") =>
          result.val.fba.revenue + result.val.fbm.revenue = get_summary(orders).total_revenue
    /\ result.op = "get_business_analysis" =>
          /\ result.exc = ""
          /\ result.val.business.revenue + result.val.consumer.revenue =
                 get_summary(orders).total_revenue

(***************************************************************************)
(* C5: get_business_analysis puts a record in 'business' exactly when its  *)
(* is-business-order, trimmed and lower-cased, is 'true', and in           *)
(* 'consumer' otherwise; for every record collection business.orders +     *)
(* consumer.orders is total_orders of get_summary.                         *)
(***************************************************************************)
C5_BusinessPartitionOrders ==
    result.op = "get_business_analysis" =>
        /\ result.exc = ""
        /\ result.val.business.orders =
              Cardinality({i \in Records :
                              LET raw == Get(orders[i], "is-business-order", "")
                              IN  raw # None /\ lower(strip(raw)) = "true"})
        /\ result.val.business.orders + result.val.consumer.orders =
              get_summary(orders).total_orders

(***************************************************************************)
(* C6: the list of get_products_summary is in non-increasing order of      *)
(* total_revenue, and two SKUs of equal total_revenue are in the order in  *)
(* which the SKUs first appear in the records.                             *)
(***************************************************************************)
C6_ProductsRankedStable ==
    Returned("get_products_summary") =>
        \A i, j \in 1..Len(result.val) :
            i < j =>
                /\ result.val[i].total_revenue >= result.val[j].total_revenue
                /\ result.val[i].total_revenue = result.val[j].total_revenue =>
                      FirstRecordOf(result.val[i].sku) < FirstRecordOf(result.val[j].sku)

\* three products, the first to appear of lower revenue than the last, and
\* two of them equal
C6_Witness ==
    /\ Returned("get_products_summary")
    /\ Len(result.val) = 3
    /\ result.val[1].total_revenue > result.val[2].total_revenue
    /\ result.val[2].total_revenue = result.val[3].total_revenue
    /\ FirstRecordOf(result.val[1].sku) > FirstRecordOf(result.val[2].sku)

(***************************************************************************)
(* C7: no aggregator raises, whatever the fields of the loaded records     *)
(* hold: a field that the row does not reach (stored as a missing value)   *)
(* and malformed numbers and dates included.                               *)
(***************************************************************************)
C7_NoAggregatorRaises == result.exc = ""

(***************************************************************************)
(* C8: get_summary defaults each money field to zero on its own:           *)
(* total_tax is the sum of the item-tax values that parse over the Shipped *)
(* records and total_shipping the sum of the shipping-price values that    *)
(* parse, whether or not the item-price or item-tax of the record parsed.  *)
(***************************************************************************)
C8_TaxAndShippingIndependent ==
    Returned("get_summary") =>
        /\ result.val.total_tax =
              Total([i \in Records |-> MoneyOrZero(orders[i], "item-tax")], ShippedRecords)
        /\ result.val.total_shipping =
              Total([i \in Records |-> MoneyOrZero(orders[i], "shipping-price")], ShippedRecords)

(***************************************************************************)
(* C9: in get_monthly_trends the revenue of every month is the sum of      *)
(* item-price (0 when it does not parse) over all Shipped records whose    *)
(* purchase-date parses into the month; a malformed quantity does not      *)
(* remove the revenue of its record.                                       *)
(***************************************************************************)
C9_MonthlyRevenue ==
    Returned("get_monthly_trends") =>
        \A n \in 1..Len(result.val) :
            result.val[n].revenue =
                Total([i \in Records |-> MoneyOrZero(orders[i], "item-price")],
                      ShippedRecords \cap RecordsOfMonth(result.val[n].key))

(***************************************************************************)
(* C10: in the result of get_promotions_analysis neither 'Unknown' nor the *)
(* empty SKU is a key of skus_on_promotion or a member of the skus list of *)
(* a promotion, also when promoted records carry such a SKU; those records *)
(* still count in total_with_promotions.                                   *)
(***************************************************************************)
C10_NoPlaceholderSkuInPromotions ==
    Returned("get_promotions_analysis") =>
        /\ result.val.total_with_promotions = Cardinality(PromotedRecords)
        /\ DOMAIN result.val.skus_on_promotion \cap {"Unknown", ""} = {}
        /\ \A n \in 1..Len(result.val.by_promotion_type) :
              Range(result.val.by_promotion_type[n].skus) \cap {"Unknown", ""} = {}

\* C11: the keys of the result of get_monthly_trends are in strictly ascending
\* 'YYYY-MM' order, hence without duplicates, in whatever order the records
\* of the months were loaded.
C11_MonthKeysAscending ==
    Returned("get_monthly_trends") =>
        \A i, j \in 1..Len(result.val) :
            i < j => MonthRank(result.val[i].key) < MonthRank(result.val[j].key)

\* get_monthly_trends has returned two months or more for a collection where
\* a record of a later month comes before a record of an earlier month
C11_Witness ==
    /\ Returned("get_monthly_trends")
    /\ Len(result.val) >= 2
    /\ \E i, j \in Records :
           /\ i < j
           /\ MonthKey(Get(orders[i], "purchase-date", "")).exc = ""
           /\ MonthKey(Get(orders[j], "purchase-date", "")).exc = ""
           /\ MonthRank(MonthKey(Get(orders[i], "purchase-date", "")).val)
                > MonthRank(MonthKey(Get(orders[j], "purchase-date", "")).val)

\* the records whose stripped promotion-ids is the promotion id p
CarryingPromotion(p) ==
    {i \in PromotedRecords : strip(Get(orders[i], "promotion-ids", "")) = p}

\* C12: when get_promotions_analysis returns, unique_skus of every promotion
\* id is the number of distinct SKUs among the records carrying that id, and
\* it is the length of the skus list of the promotion, which holds each of
\* those SKUs once.
C12_UniqueSkus ==
    Returned("get_promotions_analysis") =>
        \A n \in 1..Len(result.val.by_promotion_type) :
            LET p == result.val.by_promotion_type[n]
                distinct == {Get(orders[i], "sku", "Unknown") : i \in CarryingPromotion(p.key)}
            IN  /\ p.unique_skus = Cardinality(distinct)
                /\ p.unique_skus = Len(p.skus)
                /\ Range(p.skus) = distinct
                /\ \A i, j \in 1..Len(p.skus) : i # j => p.skus[i] # p.skus[j]

\* get_promotions_analysis has returned a promotion carried by three records
\* of two SKUs
C12_Witness ==
    /\ Returned("get_promotions_analysis")
    /\ \E n \in 1..Len(result.val.by_promotion_type) :
           /\ result.val.by_promotion_type[n].count = 3
           /\ result.val.by_promotion_type[n].unique_skus = 2

\* the aggregators (lines 77-396)
Aggregators ==
    {"get_summary", "get_products_summary", "get_monthly_trends",
     "get_fba_fbm_analysis", "get_promotions_analysis",
     "get_market_monthly_analysis", "get_business_analysis"}

ZeroClass == [orders |-> 0, revenue |-> 0, items |-> 0, cancelled |-> 0]

\* C14: with no record loaded every aggregator returns, and what it returns
\* is empty: get_summary has total_orders 0, totals 0 and empty breakdowns;
\* get_products_summary is the empty list; get_monthly_trends and
\* get_market_monthly_analysis are empty mappings; get_fba_fbm_analysis and
\* get_business_analysis have two all-zero classes and empty monthly
\* sub-series; get_promotions_analysis has total_with_promotions 0 and empty
\* maps.
C14_EmptyCollection ==
    (orders = <<>> /\ result.op \in Aggregators) =>
        /\ result.exc = ""
        /\ result.op = "get_summary" =>
               result.val = [total_orders |-> 0, by_status |-> EmptyDict,
                             by_marketplace |-> EmptyDict, by_country |-> EmptyDict,
                             by_fulfillment |-> EmptyDict, total_revenue |-> 0,
                             total_tax |-> 0, total_shipping |-> 0,
                             total_items_sold |-> 0]
        /\ result.op = "get_products_summary" => result.val = <<>>
        /\ result.op = "get_monthly_trends" => result.val = <<>>
        /\ result.op = "get_market_monthly_analysis" => result.val = <<>>
        /\ result.op = "get_fba_fbm_analysis" =>
               result.val = [fba |-> ZeroClass, fbm |-> ZeroClass,
                             monthly_fba |-> <<>>, monthly_fbm |-> <<>>]
        /\ result.op = "get_business_analysis" =>
               result.val = [business |-> ZeroClass, consumer |-> ZeroClass,
                             monthly_business |-> <<>>, monthly_consumer |-> <<>>]
        /\ result.op = "get_promotions_analysis" =>
               result.val = [total_with_promotions |-> 0, by_promotion_type |-> <<>>,
                             skus_on_promotion |-> EmptyDict,
                             monthly_promotions |-> <<>>]

\* get_business_analysis has been called with no record loaded
C14_Witness == orders = <<>> /\ result.op = "get_business_analysis"

\* C15: with one record or more loaded, create_powerpoint runs every slide
\* builder to its end and saves the presentation, and no exception leaves it,
\* whatever the records hold, a collection without any parseable
\* purchase-date included.
C15_PowerpointSaved ==
    (Len(orders) >= 1 /\ result.op = "create_powerpoint") =>
        /\ result.exc = ""
        /\ result.val.built = SlideBuilders
        /\ result.val.saved

\* C16: called with no record loaded, create_powerpoint returns before it
\* creates a presentation, before it calls a slide builder and without
\* saving a file.
C16_RefusesEmptyCollection ==
    (orders = <<>> /\ result.op = "create_powerpoint") =>
        /\ result.exc = ""
        /\ ~result.val.presentation
        /\ result.val.built = <<>>
        /\ ~result.val.saved

\* create_powerpoint has been called with no record loaded
C16_Witness == orders = <<>> /\ result.op = "create_powerpoint"

\* the rows of the lines of a file that have an amazon-order-id, in the order
\* of the lines
RowsWithId(dir, lines) ==
    SelectSeq([i \in 1..Len(lines) |-> DictRow(HeaderOf(dir), lines[i])],
              LAMBDA row : row["amazon-order-id"] \notin {None, ""})

\* for each directory, what its files hold as rows with an amazon-order-id
FileRowsWithId ==
    [dir \in Directories |-> {RowsWithId(dir, lines) : lines \in FilesOf(dir)}]

\* C17: every record of self.orders has a non-empty amazon-order-id; no step
\* removes, changes or reorders a record that is there; and a load appends
\* the rows of one file that have an amazon-order-id, in file order, and
\* nothing else (the load_files of a run of main being a sequence of loads).
C17_LoadsOnlyAppend ==
    [][/\ Len(orders') >= Len(orders)
       /\ SubSeq(orders', 1, Len(orders)) = orders
       /\ \A i \in 1..Len(orders') :
              orders'[i]["amazon-order-id"] \notin {None, ""}
       /\ result'.op = "_load_file" =>
              SubSeq(orders', Len(orders) + 1, Len(orders'))
                  \in FileRowsWithId[data_directory]
       /\ result'.op \notin {"_load_file", "main"} => orders' = orders]_vars

\* a load has appended to the records of an earlier load: no one file holds
\* as many rows as self.orders has records
C17_Witness == result.op = "_load_file" /\ Len(orders) > MaxFileRows

\* the quantity of a record as a number, 0 when it is empty, missing or does
\* not parse
QuantityOrZero(order) ==
    IF IntField(order, "quantity").exc = "" THEN IntField(order, "quantity").val ELSE 0

\* the records of a SKU
RecordsOfSku(sku) == {i \in Records : Get(orders[i], "sku", "Unknown") = sku}

\* the SKUs of the records that are neither missing, empty nor 'Unknown'
RealSkus == {Get(orders[i], "sku", "Unknown") : i \in Records} \ {None, "", "Unknown"}

\* C18: get_products_summary has one entry for each SKU that is non-empty and
\* not 'Unknown' and no other entry; orders_count of an entry is the number
\* of records of the SKU and total_quantity the sum of their parseable
\* quantities, whatever their status, and total_revenue is the sum of the
\* parseable item-price of the Shipped ones.
C18_ProductsPerSku ==
    Returned("get_products_summary") =>
        /\ {result.val[n].sku : n \in 1..Len(result.val)} = RealSkus
        /\ Len(result.val) = Cardinality(RealSkus)
        /\ \A n \in 1..Len(result.val) :
               LET p == result.val[n]
               IN  /\ p.orders_count = Cardinality(RecordsOfSku(p.sku))
                   /\ p.total_quantity =
                          Total([i \in Records |-> QuantityOrZero(orders[i])],
                                RecordsOfSku(p.sku))
                   /\ p.total_revenue =
                          Total([i \in Records |-> MoneyOrZero(orders[i], "item-price")],
                                RecordsOfSku(p.sku) \cap ShippedRecords)

\* a products summary with an entry for a SKU of two records or more, one of
\* them not Shipped and priced, over a collection that also has a record
\* whose quantity does not parse or whose SKU is a placeholder
C18_Witness ==
    /\ Returned("get_products_summary")
    /\ \E n \in 1..Len(result.val) :
           /\ result.val[n].orders_count >= 2
           /\ result.val[n].total_revenue > 0
           /\ \E i \in RecordsOfSku(result.val[n].sku) \ ShippedRecords :
                  MoneyOrZero(orders[i], "item-price") > 0
    /\ \E i \in Records :
           \/ IntField(orders[i], "quantity").exc # ""
           \/ Get(orders[i], "sku", "Unknown") \in {None, "", "Unknown"}

\* the number of orders a monthly sub-series has for the month m, 0 when the
\* month has no entry
SubSeriesOrders(series, m) ==
    IF HasKey(series, m) THEN Entry(series, m).orders ELSE 0

\* the Shipped records of the month m that are Amazon-fulfilled (fba TRUE) or
\* not (fba FALSE)
ShippedOfClassAndMonth(fba, m) ==
    {i \in ShippedRecords \cap RecordsOfMonth(m) :
        (Get(orders[i], "fulfillment-channel", "Unknown") = "Amazon") = fba}

\* C19: in the result of get_fba_fbm_analysis the monthly sub-series of a
\* class counts, month by month, exactly the Shipped records of the class
\* whose purchase-date parses into the month, a record whose item-price does
\* not parse included; a month without such a record has no entry.
C19_SubSeriesCounts ==
    Returned("get_fba_fbm_analysis") =>
        \A m \in Range(MonthOrder) :
            /\ SubSeriesOrders(result.val.monthly_fba, m)
                   = Cardinality(ShippedOfClassAndMonth(TRUE, m))
            /\ SubSeriesOrders(result.val.monthly_fbm, m)
                   = Cardinality(ShippedOfClassAndMonth(FALSE, m))
            /\ HasKey(result.val.monthly_fba, m) <=> ShippedOfClassAndMonth(TRUE, m) # {}
            /\ HasKey(result.val.monthly_fbm, m) <=> ShippedOfClassAndMonth(FALSE, m) # {}

\* the country of a record, 'Unknown' when the record has none
CountryOf(order) ==
    IF "ship-country" \notin DOMAIN order \/ order["ship-country"] = None
    THEN "Unknown" ELSE order["ship-country"]

\* the Shipped records of the country c whose purchase-date parses into the
\* month m
ShippedOfMarket(c, m) ==
    {i \in ShippedRecords \cap RecordsOfMonth(m) : CountryOf(orders[i]) = c}

\* analysis[c][m] read from a result of get_market_monthly_analysis, 0 where
\* the result has no such entry
MarketRevenue(analysis, c, m) ==
    IF HasKey(analysis, c) /\ HasKey(Entry(analysis, c).months, m)
    THEN Entry(Entry(analysis, c).months, m).revenue ELSE 0

\* C20: in the result of get_market_monthly_analysis the entry of a country
\* c and a month m is the sum of the parseable item-price of the Shipped
\* records of country c (a record without a country being of 'Unknown')
\* whose purchase-date parses into m; a country and a month without such a
\* record have no entry; and the months of every country are in ascending
\* order.
C20_MarketRevenue ==
    Returned("get_market_monthly_analysis") =>
        /\ \A c \in {CountryOf(orders[i]) : i \in Records}
                      \cup {result.val[n].key : n \in 1..Len(result.val)} :
               \A m \in Range(MonthOrder) :
                   /\ MarketRevenue(result.val, c, m) =
                          Total([i \in Records |-> MoneyOrZero(orders[i], "item-price")],
                                ShippedOfMarket(c, m))
                   /\ ShippedOfMarket(c, m) = {} =>
                          ~(HasKey(result.val, c) /\ HasKey(Entry(result.val, c).months, m))
        /\ \A n \in 1..Len(result.val) :
               \A i, j \in 1..Len(result.val[n].months) :
                   i < j => MonthRank(result.val[n].months[i].key)
                                < MonthRank(result.val[n].months[j].key)

\* the records whose purchase-date parses
DatedRecords == UNION {RecordsOfMonth(m) : m \in Range(MonthOrder)}

\* C21: a record whose purchase-date is absent or does not parse is left out
\* of the months and of nothing else: the 'orders' of the months of
\* get_monthly_trends sum to the number of records whose purchase-date
\* parses, whatever their status and their numeric fields, while
\* total_orders of get_summary, fba.orders + fbm.orders and business.orders
\* + consumer.orders each count every record.
C21_OnlyMonthsExcludeUndated ==
    /\ result.op = "get_monthly_trends" =>
           /\ result.exc = ""
           /\ Total([n \in 1..Len(result.val) |-> result.val[n].orders],
                    1..Len(result.val)) = Cardinality(DatedRecords)
    /\ result.op = "get_summary" =>
           result.exc = "" /\ result.val.total_orders = Len(orders)
    /\ result.op = "get_fba_fbm_analysis" =>
           result.exc = "" /\ result.val.fba.orders + result.val.fbm.orders = Len(orders)
    /\ result.op = "get_business_analysis" =>
           /\ result.exc = ""
           /\ result.val.business.orders + result.val.consumer.orders = Len(orders)

\* the records of self.orders that carry a promotion, in their order
PromotedOrders ==
    SelectSeq(orders, LAMBDA order :
        LET p == Get(order, "promotion-ids", "")
        IN  p # None /\ strip(p) # "")

\* C22: when get_promotions_analysis returns, total_with_promotions is the
\* number of records whose promotion-ids is non-empty once trimmed, the sum
\* of 'count' over the promotion ids and the sum of the values of
\* skus_on_promotion; the result is the one the records with a promotion
\* alone would give, the records whose promotion-ids is empty or blank
\* changing nothing; and the counts of monthly_promotions sum to at most
\* total_with_promotions.
C22_OnlyPromotedParticipate ==
    Returned("get_promotions_analysis") =>
        LET r == result.val
        IN  /\ r.total_with_promotions = Cardinality(PromotedRecords)
            /\ r.total_with_promotions =
                   Total([n \in 1..Len(r.by_promotion_type) |-> r.by_promotion_type[n].count],
                         1..Len(r.by_promotion_type))
            /\ r.total_with_promotions = SumValues(r.skus_on_promotion)
            /\ r = get_promotions_analysis(PromotedOrders, set_iteration).val
            /\ Total([n \in 1..Len(r.monthly_promotions) |-> r.monthly_promotions[n].count],
                     1..Len(r.monthly_promotions)) <= r.total_with_promotions

\* get_promotions_analysis has returned for two promoted records, one of them
\* without a parseable purchase-date, and a record whose promotion-ids is
\* blank
C22_Witness ==
    /\ Returned("get_promotions_analysis")
    /\ result.val.total_with_promotions = 2
    /\ Len(result.val.monthly_promotions) = 1
    /\ result.val.monthly_promotions[1].count = 1
    /\ \E i \in Records : orders[i]["promotion-ids"] = "  "

\* the revenue a monthly sub-series has for the month m, 0 when the month has
\* no entry
SeriesRevenue(series, m) ==
    IF HasKey(series, m) THEN Entry(series, m).revenue ELSE 0

\* the months a dict keyed by month has
MonthsOf(series) == {series[n].key : n \in 1..Len(series)}

\* the outcome of each of the three views on self.orders: the one the last
\* call returned where the last call was of that view
FbaFbmView ==
    IF result.op = "get_fba_fbm_analysis" THEN result.val
    ELSE get_fba_fbm_analysis(orders)

BusinessView ==
    IF result.op = "get_business_analysis" THEN [exc |-> result.exc, val |-> result.val]
    ELSE get_business_analysis(orders)

MarketView ==
    IF result.op = "get_market_monthly_analysis" THEN result.val
    ELSE get_market_monthly_analysis(orders)

\* C23: for every collection and every month m, monthly_fba[m].revenue +
\* monthly_fbm[m].revenue, monthly_business[m].revenue +
\* monthly_consumer[m].revenue and the sum over the countries c of
\* get_market_monthly_analysis()[c][m] are equal, an absent entry counting
\* as 0, and the three views have the same months.
C23_RevenueSeriesAgree ==
    result.op \in {"get_fba_fbm_analysis", "get_business_analysis",
                   "get_market_monthly_analysis"} =>
        /\ BusinessView.exc = ""
        /\ \A m \in Range(MonthOrder) :
               LET fulfilment == SeriesRevenue(FbaFbmView.monthly_fba, m)
                                   + SeriesRevenue(FbaFbmView.monthly_fbm, m)
                   customers == SeriesRevenue(BusinessView.val.monthly_business, m)
                                  + SeriesRevenue(BusinessView.val.monthly_consumer, m)
                   markets == Total([n \in 1..Len(MarketView) |->
                                        SeriesRevenue(MarketView[n].months, m)],
                                    1..Len(MarketView))
               IN  fulfilment = customers /\ customers = markets
        /\ MonthsOf(FbaFbmView.monthly_fba) \cup MonthsOf(FbaFbmView.monthly_fbm)
               = MonthsOf(BusinessView.val.monthly_business)
                   \cup MonthsOf(BusinessView.val.monthly_consumer)
        /\ MonthsOf(FbaFbmView.monthly_fba) \cup MonthsOf(FbaFbmView.monthly_fbm)
               = UNION {MonthsOf(MarketView[n].months) : n \in 1..Len(MarketView)}

\* the revenue of all the months of a monthly sub-series
SeriesTotal(series) ==
    Total([n \in 1..Len(series) |-> series[n].revenue], 1..Len(series))

\* the parseable item-price of the records of the set S, summed
PriceOf(S) == Total([i \in Records |-> MoneyOrZero(orders[i], "item-price")], S)

\* the Shipped records that are Amazon-fulfilled (fba TRUE) or not
ShippedOfFulfilment(fba) ==
    {i \in ShippedRecords :
        (Get(orders[i], "fulfillment-channel", "Unknown") = "Amazon") = fba}

\* the Shipped records that are business orders (business TRUE) or not, none
\* of the records being without its is-business-order
ShippedOfCustomer(business) ==
    {i \in ShippedRecords :
        (lower(strip(Get(orders[i], "is-business-order", ""))) = "true") = business}

\* C24: in a result of get_fba_fbm_analysis or get_business_analysis the
\* revenue of a class is the parseable item-price of all its Shipped
\* records, those whose purchase-date is present and does not parse
\* included, and the revenue of its monthly sub-series sums to the class
\* revenue less the item-price of its Shipped records without a parseable
\* purchase-date.
C24_SeriesRevenueVersusClass ==
    /\ Returned("get_fba_fbm_analysis") =>
           /\ result.val.fba.revenue = PriceOf(ShippedOfFulfilment(TRUE))
           /\ result.val.fbm.revenue = PriceOf(ShippedOfFulfilment(FALSE))
           /\ SeriesTotal(result.val.monthly_fba) =
                  result.val.fba.revenue - PriceOf(ShippedOfFulfilment(TRUE) \ DatedRecords)
           /\ SeriesTotal(result.val.monthly_fbm) =
                  result.val.fbm.revenue - PriceOf(ShippedOfFulfilment(FALSE) \ DatedRecords)
    /\ Returned("get_business_analysis") =>
           /\ result.val.business.revenue = PriceOf(ShippedOfCustomer(TRUE))
           /\ result.val.consumer.revenue = PriceOf(ShippedOfCustomer(FALSE))
           /\ SeriesTotal(result.val.monthly_business) =
                  result.val.business.revenue - PriceOf(ShippedOfCustomer(TRUE) \ DatedRecords)
           /\ SeriesTotal(result.val.monthly_consumer) =
                  result.val.consumer.revenue - PriceOf(ShippedOfCustomer(FALSE) \ DatedRecords)

\* get_business_analysis has returned a business class whose months hold
\* some of its revenue and not all of it, a Shipped business order with a
\* price having a purchase-date that is present and does not parse
C24_Witness ==
    /\ Returned("get_business_analysis")
    /\ SeriesTotal(result.val.monthly_business) > 0
    /\ SeriesTotal(result.val.monthly_business) < result.val.business.revenue
    /\ \E i \in ShippedOfCustomer(TRUE) :
           /\ Truthy(Get(orders[i], "purchase-date", ""))
           /\ MonthKey(Get(orders[i], "purchase-date", "")).exc # ""
           /\ MoneyOrZero(orders[i], "item-price") > 0

\* C25: a run of main prints the message of success only if create_powerpoint
\* has saved the presentation in that run; a run in which create_powerpoint
\* refused for want of records does not print it.
C25_SuccessOnlyIfSaved ==
    (result.op = "main" /\ result.val.success) => result.val.saved

\* C26: no slide builder reached through create_powerpoint divides by zero:
\* each ratio is computed under a test of its denominator or has a
\* denominator that the check of lines 418-420 makes positive, so that
\* create_powerpoint, called by main or not, never ends with a
\* ZeroDivisionError.
C26_NoDivisionByZero ==
    result.op \in {"create_powerpoint", "main"} => result.exc # "ZeroDivisionError"

\* create_powerpoint has built every slide and saved for a collection with
\* no Amazon-fulfilled order and no Shipped order: the denominators of the
\* fba cancel rate and of the average order value were zero
C26_Witness ==
    /\ result.op = "create_powerpoint"
    /\ result.val.saved
    /\ get_fba_fbm_analysis(orders).fba.orders = 0
    /\ ShippedRecords = {}

=============================================================================
